---- MODULE Spec2Model ----
(***************************************************************************)
(* Model of the prediction API of credit-card-fraud-detection              *)
(* (src/src/app/api.py): the model cache (_model, _model_info), the        *)
(* resolver load_model with its alias -> stage -> local fallback chain,    *)
(* and the HTTP handlers health, metrics, model_info, reload and predict.  *)
(*                                                                         *)
(* Every handler is an `async def` without an await point, so one request  *)
(* runs to completion before the next one starts: one action per handler.  *)
(* The registry, the local artifact, the scoring call and the database     *)
(* session are external collaborators: the outcome each of them gives to   *)
(* a request is an input of the action, drawn from a small set.            *)
(*                                                                         *)
(* The promotion script (src/scripts/promote_model.py) is modelled         *)
(* statement by statement; its reload request is served by the handler     *)
(* of the API.                                                             *)
(***************************************************************************)
EXTENDS Integers, Sequences, FiniteSets, TLC

\* ------------------------------------------------------------------ bounds
MaxLoads == 2        \* predictor objects materialised in one behaviour
MaxPredicts == 1     \* POST /predict requests in one behaviour
MaxPromotions == 2   \* promote_model calls in one behaviour

\* --------------------------------------------------------------- constants
MODEL_NAME == "credit-fraud"
NoneStr == "None"    \* Python's None in a string-valued slot
NoModel == 0         \* Python's None in the _model slot; predictors are 1..

Versions == {"7", "8"}
AliasErrors == {"alias error A", "alias error B"}
StageErrors == {"stage error A", "stage error B"}
LocalLoadError == "cannot unpickle artifact"
ScoringError == "feature names missing"
RollbackError == "rollback failed"
Probas == {49, 50}   \* fraud probability in hundredths
Statuses == {200, 400, 503}

VARIABLES
    MODEL_ALIAS,     \* "" or the configured alias
    MODEL_STAGE,     \* "" or the configured stage
    MODEL_PATH,      \* "" or the configured artifact path
    DB_ENABLED,      \* database import and init_db() succeeded at startup
    _model,          \* NoModel or the identity of the cached predictor
    _model_info,     \* the binding: source, name, alias, stage, version, errors
    REQUEST_COUNT,   \* counter value per http_status label of POST /predict
    REQUEST_LATENCY, \* number of observations for the /predict label
    predictions,     \* rows committed to the predictions table
    nextId,          \* identity the next materialised predictor object gets
    resp,            \* what the last request did and answered
    owner,           \* the predictor the contents of _model_info were written for
    tasks,           \* the handler coroutines that are part-way through
    promotion,       \* the frame of the promote_model call of the promotion script
    registry         \* the version the registry alias points to

vars == <<MODEL_ALIAS, MODEL_STAGE, MODEL_PATH, DB_ENABLED, _model, _model_info,
          REQUEST_COUNT, REQUEST_LATENCY, predictions, nextId, resp, owner, tasks,
          promotion, registry>>

config == <<MODEL_ALIAS, MODEL_STAGE, MODEL_PATH, DB_ENABLED>>

\* The state of the prediction API process.
app == <<_model, _model_info, REQUEST_COUNT, REQUEST_LATENCY, predictions, nextId,
         resp, owner, tasks>>

\* The state of the promotion script and of the registry it writes to.
script == <<promotion, registry>>

\* ------------------------------------------------ outcomes of collaborators
\* mlflow.sklearn.load_model("models:/name@alias") and the version lookup
\* client.get_model_version_by_alias that follows it.
AliasOutcomes ==
    {[load |-> "raise", msg |-> m, ver |-> NoneStr, lookup |-> "none"] : m \in AliasErrors}
    \cup {[load |-> "ok", msg |-> NoneStr, ver |-> v, lookup |-> "ok"] : v \in Versions}
    \cup {[load |-> "ok", msg |-> NoneStr, ver |-> NoneStr, lookup |-> "raise"]}

\* mlflow.sklearn.load_model("models:/name/stage") and get_latest_versions:
\* the lookup returns a version, an empty list, or raises.
StageOutcomes ==
    {[load |-> "raise", msg |-> m, ver |-> NoneStr, lookup |-> "none"] : m \in StageErrors}
    \cup {[load |-> "ok", msg |-> NoneStr, ver |-> v, lookup |-> "ok"] : v \in Versions}
    \cup {[load |-> "ok", msg |-> NoneStr, ver |-> NoneStr, lookup |-> l] : l \in {"empty", "raise"}}

\* The file at MODEL_PATH: missing, loadable by joblib, or not loadable.
LocalOutcomes == {"absent", "ok", "corrupt"}

\* model.predict_proba on the one-row frame built from the payload.
ScoreOutcomes ==
    {[called |-> TRUE, raises |-> TRUE, proba |-> 0]}
    \cup {[called |-> TRUE, raises |-> FALSE, proba |-> p] : p \in Probas}

NoScore == [called |-> FALSE, raises |-> FALSE, proba |-> 0]

\* The database write: the step that fails (if any) and what db.rollback() does.
DbOutcomes ==
    {[fail |-> "none", rollback |-> "ok"]}
    \cup [fail : {"construct", "add", "commit"}, rollback : {"ok", "raise"}]

NoDb == [fail |-> "unused", rollback |-> "ok"]

\* ------------------------------------------------------------------ binding
EmptyErrors == [alias |-> NoneStr, stage |-> NoneStr]

EmptyInfo ==
    [source |-> NoneStr, name |-> NoneStr, alias |-> NoneStr, stage |-> NoneStr,
     version |-> NoneStr, errors |-> EmptyErrors]

ModelView(info) ==
    [name |-> info.name, alias |-> info.alias, stage |-> info.stage,
     version |-> info.version, source |-> info.source]

\* ----------------------------------------------------------------- resolver
\* One entry of the trace of a load_model call: the source consulted and the
\* outcome it gave.
Attempt(src, o) ==
    [src |-> src, ok |-> o.load = "ok", msg |-> o.msg, ver |-> o.ver,
     lookup |-> o.lookup]

LocalAttempt(l) ==
    [src |-> "local", ok |-> l = "ok",
     msg |-> IF l = "corrupt" THEN LocalLoadError ELSE NoneStr,
     ver |-> NoneStr, lookup |-> l]

\* Result of one load_model call: the cache as the call leaves it, the value
\* returned or the exception raised, and the trace.
LoadResult(m, info, ret, raised, exc, attempts, passes) ==
    [model |-> m, info |-> info, ret |-> ret, raised |-> raised, exc |-> exc,
     attempts |-> attempts, passes |-> passes, calls |-> 1]

\* The resolver is a set-valued operator: one result per outcome the
\* collaborators it consults can give.

\* Variant: an artifact that cannot be loaded counts as a missing artifact.
LocalFallback_SwallowError(info, nid, attempts, path) ==
    IF path = ""
    THEN {LoadResult(NoModel, info, NoModel, FALSE, NoneStr, attempts, 1)}
    ELSE {IF l = "ok"
          THEN LoadResult(nid,
                          [info EXCEPT !.source = "local", !.name = NoneStr,
                                       !.alias = NoneStr, !.stage = NoneStr,
                                       !.version = NoneStr],
                          nid, FALSE, NoneStr,
                          Append(attempts, LocalAttempt(l)), 1)
          ELSE LoadResult(NoModel, info, NoModel, FALSE, NoneStr,
                          Append(attempts, LocalAttempt(l)), 1)
          : l \in LocalOutcomes}

\* Variant: a successful local load resets the recorded errors.
LocalFallback_ClearErrors(info, nid, attempts, path) ==
    IF path = ""
    THEN {LoadResult(NoModel, info, NoModel, FALSE, NoneStr, attempts, 1)}
    ELSE {CASE l = "ok" ->
                 LoadResult(nid,
                            [info EXCEPT !.source = "local", !.name = NoneStr,
                                         !.alias = NoneStr, !.stage = NoneStr,
                                         !.version = NoneStr, !.errors = EmptyErrors],
                            nid, FALSE, NoneStr,
                            Append(attempts, LocalAttempt(l)), 1)
            [] l = "corrupt" ->
                 LoadResult(NoModel, info, NoModel, TRUE, LocalLoadError,
                            Append(attempts, LocalAttempt(l)), 1)
            [] OTHER ->
                 LoadResult(NoModel, info, NoModel, FALSE, NoneStr,
                            Append(attempts, LocalAttempt(l)), 1)
          : l \in LocalOutcomes}

\* Lines 96-107: the local fallback, which sits in the handler of the stage
\* lookup's exception.
LocalFallback(info, nid, attempts, path) ==
    IF path = ""
    THEN {LoadResult(NoModel, info, NoModel, FALSE, NoneStr, attempts, 1)}
    ELSE {CASE l = "ok" ->
                 LoadResult(nid,
                            [info EXCEPT !.source = "local", !.name = NoneStr,
                                         !.alias = NoneStr, !.stage = NoneStr,
                                         !.version = NoneStr],
                            nid, FALSE, NoneStr,
                            Append(attempts, LocalAttempt(l)), 1)
            [] l = "corrupt" ->
                 LoadResult(NoModel, info, NoModel, TRUE, LocalLoadError,
                            Append(attempts, LocalAttempt(l)), 1)
            [] OTHER ->
                 LoadResult(NoModel, info, NoModel, FALSE, NoneStr,
                            Append(attempts, LocalAttempt(l)), 1)
          : l \in LocalOutcomes}

\* Variant: the resolved version is not stored in the binding.
StageBinding_NoVersion(info, o, stage) ==
    [info EXCEPT !.source = "stage", !.name = MODEL_NAME, !.alias = NoneStr,
                 !.stage = stage]

\* Lines 80-92: the binding after a successful stage load.
StageBinding(info, o, stage) ==
    CASE o.lookup = "ok" ->
           [info EXCEPT !.source = "stage", !.name = MODEL_NAME, !.alias = NoneStr,
                        !.stage = stage, !.version = o.ver]
      [] o.lookup = "empty" ->
           [info EXCEPT !.source = "stage", !.name = MODEL_NAME, !.alias = NoneStr,
                        !.stage = stage, !.version = NoneStr]
      [] OTHER ->
           [info EXCEPT !.source = "stage", !.name = MODEL_NAME, !.stage = stage]

\* Lines 76-107: the stage lookup.
StageLookup(info, nid, attempts, stage, path) ==
    IF stage # ""
    THEN UNION {IF o.load = "ok"
                THEN {LoadResult(nid, StageBinding(info, o, stage), nid, FALSE, NoneStr,
                                 Append(attempts, Attempt("stage", o)), 1)}
                ELSE LocalFallback([info EXCEPT !.errors.stage = o.msg], nid,
                                   Append(attempts, Attempt("stage", o)), path)
                : o \in StageOutcomes}
    ELSE {LoadResult(NoModel, info, NoModel, FALSE, NoneStr, attempts, 1)}

\* Variant: a successful alias load clears the alias error of earlier attempts.
AliasBinding_ClearError(info, o, alias) ==
    IF o.lookup = "ok"
    THEN [info EXCEPT !.source = "alias", !.name = MODEL_NAME, !.alias = alias,
                      !.stage = NoneStr, !.version = o.ver,
                      !.errors.alias = NoneStr]
    ELSE [info EXCEPT !.source = "alias", !.name = MODEL_NAME, !.alias = alias,
                      !.errors.alias = NoneStr]

\* Variant: a failing version lookup is recorded as an alias error.
AliasBinding_RecordLookupError(info, o, alias) ==
    IF o.lookup = "ok"
    THEN [info EXCEPT !.source = "alias", !.name = MODEL_NAME, !.alias = alias,
                      !.stage = NoneStr, !.version = o.ver]
    ELSE [info EXCEPT !.source = "alias", !.name = MODEL_NAME, !.alias = alias,
                      !.errors.alias = "version lookup failed"]

\* Variant: the binding's source is left unset when the version lookup raises.
AliasBinding_NoSource(info, o, alias) ==
    IF o.lookup = "ok"
    THEN [info EXCEPT !.source = "alias", !.name = MODEL_NAME, !.alias = alias,
                      !.stage = NoneStr, !.version = o.ver]
    ELSE [info EXCEPT !.name = MODEL_NAME, !.alias = alias]

\* Lines 61-72: the binding after a successful alias load.
AliasBinding(info, o, alias) ==
    IF o.lookup = "ok"
    THEN [info EXCEPT !.source = "alias", !.name = MODEL_NAME, !.alias = alias,
                      !.stage = NoneStr, !.version = o.ver]
    ELSE [info EXCEPT !.source = "alias", !.name = MODEL_NAME, !.alias = alias]

\* Variant: the alias branch does not return, so the stage lookup runs too.
AliasLookup_NoReturn(info, nid, alias, stage, path) ==
    IF alias # ""
    THEN UNION {IF o.load = "ok"
                THEN StageLookup(AliasBinding(info, o, alias), nid,
                                 <<Attempt("alias", o)>>, stage, path)
                ELSE StageLookup([info EXCEPT !.errors.alias = o.msg], nid,
                                 <<Attempt("alias", o)>>, stage, path)
                : o \in AliasOutcomes}
    ELSE StageLookup(info, nid, <<>>, stage, path)

\* Variant: an alias error ends the resolution instead of falling through.
AliasLookup_FailFast(info, nid, alias, stage, path) ==
    IF alias # ""
    THEN {IF o.load = "ok"
          THEN LoadResult(nid, AliasBinding(info, o, alias), nid, FALSE, NoneStr,
                          <<Attempt("alias", o)>>, 1)
          ELSE LoadResult(NoModel, [info EXCEPT !.errors.alias = o.msg], NoModel,
                          FALSE, NoneStr, <<Attempt("alias", o)>>, 1)
          : o \in AliasOutcomes}
    ELSE StageLookup(info, nid, <<>>, stage, path)

\* Lines 57-75: the alias lookup.
AliasLookup(info, nid, alias, stage, path) ==
    IF alias # ""
    THEN UNION {IF o.load = "ok"
                THEN {LoadResult(nid, AliasBinding(info, o, alias), nid, FALSE, NoneStr,
                                 <<Attempt("alias", o)>>, 1)}
                ELSE StageLookup([info EXCEPT !.errors.alias = o.msg], nid,
                                 <<Attempt("alias", o)>>, stage, path)
                : o \in AliasOutcomes}
    ELSE StageLookup(info, nid, <<>>, stage, path)

\* Variant: a call that finds a predictor cached resets the recorded errors.
load_model_Refresh(m, info, nid, alias, stage, path) ==
    IF m # NoModel
    THEN {LoadResult(m, [info EXCEPT !.errors = EmptyErrors], m, FALSE, NoneStr, <<>>, 0)}
    ELSE AliasLookup(info, nid, alias, stage, path)

\* Variant: the cached predictor is not returned early.
load_model_NoCache(m, info, nid, alias, stage, path) ==
    AliasLookup(info, nid, alias, stage, path)

\* Lines 51-107: load_model.
load_model(m, info, nid, alias, stage, path) ==
    IF m # NoModel
    THEN {LoadResult(m, info, m, FALSE, NoneStr, <<>>, 0)}
    ELSE AliasLookup(info, nid, alias, stage, path)

\* A predictor object was materialised by the call.
Loaded(r) == r.model # NoModel /\ r.passes = 1

CanLoad == nextId <= MaxLoads

\* ---------------------------------------------------------------- responses
\* A handler that does not call load_model.
NoCall ==
    [model |-> NoModel, info |-> EmptyInfo, ret |-> NoModel, raised |-> FALSE,
     exc |-> NoneStr, attempts |-> <<>>, passes |-> 0, calls |-> 0]

\* The record of one request: the answer (status, body, unhandled) and what
\* the handler did on the way (resolver trace, metrics touched, rows written).
Response(op, status, body, unhandled, r, counted, observed, score, db, logged) ==
    [op |-> op, status |-> status, body |-> body, unhandled |-> unhandled,
     calls |-> r.calls, attempts |-> r.attempts, passes |-> r.passes,
     ret |-> r.ret, raised |-> r.raised,
     counted |-> counted, observed |-> observed, score |-> score, db |-> db,
     logged |-> logged]

\* The frame of the predict coroutine (the result of its load_model call, the
\* binding that call left, the scoring and database outcomes, the rows it
\* wrote) and the position of the reload coroutine.
IdleTasks ==
    [predict |-> [pc |-> "idle", r |-> NoCall, seen |-> ModelView(EmptyInfo),
                  score |-> NoScore, db |-> NoDb, rows |-> <<>>],
     reload |-> [pc |-> "idle"]]

\* The frame of promote_model: its arguments, how far it got, what it saw
\* and what it returned.
IdlePromotion ==
    [pc |-> "idle", run |-> 0, version |-> NoneStr, reload_app |-> FALSE,
     verified |-> FALSE, set |-> FALSE, posted |-> FALSE, status |-> 0,
     raised |-> "none", ret |-> "none"]

\* What the framework answers when an exception leaves a handler.
InternalServerError == [detail |-> "Internal Server Error"]

Init ==
    /\ MODEL_ALIAS \in {"", "production"}
    /\ MODEL_STAGE \in {"", "Production"}
    /\ MODEL_PATH \in {"", "models/latest.joblib"}
    /\ DB_ENABLED \in BOOLEAN
    /\ _model = NoModel
    /\ _model_info = EmptyInfo
    /\ REQUEST_COUNT = [s \in Statuses |-> 0]
    /\ REQUEST_LATENCY = 0
    /\ predictions = <<>>
    /\ nextId = 1
    /\ owner = NoModel
    /\ tasks = IdleTasks
    /\ promotion = IdlePromotion
    /\ registry = NoneStr
    /\ resp = Response("none", 0, [status |-> "none"], FALSE, NoCall, <<>>, 0,
                       NoScore, NoDb, <<>>)

\* ----------------------------------------------------------------- handlers
\* GET /health
health ==
    /\ resp' = Response("health", 200, [status |-> "ok"], FALSE, NoCall, <<>>, 0,
                        NoScore, NoDb, <<>>)
    /\ UNCHANGED <<config, script, _model, _model_info, REQUEST_COUNT, REQUEST_LATENCY,
                   predictions, nextId, owner, tasks>>

\* GET /metrics: the text exposition of the two collectors.
metrics ==
    /\ resp' = Response("metrics", 200,
                        [content_type |-> "text/plain", count |-> REQUEST_COUNT,
                         latency |-> REQUEST_LATENCY],
                        FALSE, NoCall, <<>>, 0, NoScore, NoDb, <<>>)
    /\ UNCHANGED <<config, script, _model, _model_info, REQUEST_COUNT, REQUEST_LATENCY,
                   predictions, nextId, owner, tasks>>

\* Cache and allocation after a load_model call.
Commit(r) ==
    /\ _model' = r.model
    /\ _model_info' = r.info
    /\ nextId' = IF Loaded(r) THEN nextId + 1 ELSE nextId
    /\ owner' = IF Loaded(r) THEN r.model ELSE owner

\* GET /model_info
model_info ==
    /\ _model # NoModel \/ CanLoad
    /\ \E r \in IF _model = NoModel
                 THEN load_model(_model, _model_info, nextId,
                                 MODEL_ALIAS, MODEL_STAGE, MODEL_PATH)
                 ELSE {[NoCall EXCEPT !.model = _model, !.info = _model_info]} :
            /\ Commit(r)
            /\ resp' = IF r.raised
                       THEN Response("model_info", 500, InternalServerError, TRUE, r,
                                     <<>>, 0, NoScore, NoDb, <<>>)
                       ELSE Response("model_info", 200,
                                     [model |-> ModelView(r.info), errors |-> r.info.errors],
                                     FALSE, r, <<>>, 0, NoScore, NoDb, <<>>)
    /\ UNCHANGED <<config, script, REQUEST_COUNT, REQUEST_LATENCY, predictions, tasks>>

\* Variant: an exception of load_model is answered like a None result.
reload_response_RaiseAs503(r) ==
    IF r.ret = NoModel
    THEN [status |-> 503,
          body |-> [status |-> "error", message |-> "Failed to load model",
                    model_info |-> r.info]]
    ELSE [status |-> 200,
          body |-> [status |-> "success", message |-> "Model reloaded successfully",
                    model |-> ModelView(r.info)]]

\* Variant: the None result of load_model is not checked.
reload_response_NoNoneCheck(r) ==
    IF r.raised
    THEN [status |-> 500,
          body |-> [status |-> "error", message |-> r.exc, model_info |-> r.info]]
    ELSE [status |-> 200,
          body |-> [status |-> "success", message |-> "Model reloaded successfully",
                    model |-> ModelView(r.info)]]

\* Lines 153-176: the answer of POST /reload to one load_model result.
reload_response(r) ==
    IF r.raised
    THEN [status |-> 500,
          body |-> [status |-> "error", message |-> r.exc, model_info |-> r.info]]
    ELSE IF r.ret = NoModel
    THEN [status |-> 503,
          body |-> [status |-> "error", message |-> "Failed to load model",
                    model_info |-> r.info]]
    ELSE [status |-> 200,
          body |-> [status |-> "success", message |-> "Model reloaded successfully",
                    model |-> ModelView(r.info)]]

\* Variant: reload clears the predictor but keeps the binding.
reload_clear_KeepInfo(m, info) == [model |-> NoModel, info |-> info]

\* Variant: reload leaves the cache as it is.
reload_clear_Keep(m, info) == [model |-> m, info |-> info]

\* Lines 139-151: the cache as reload leaves it before resolving again.
reload_clear(m, info) == [model |-> NoModel, info |-> EmptyInfo]

\* POST /reload: the handler, whoever sends the request.
reload_request ==
    /\ CanLoad
    /\ \E r \in load_model(reload_clear(_model, _model_info).model,
                            reload_clear(_model, _model_info).info, nextId,
                            MODEL_ALIAS, MODEL_STAGE, MODEL_PATH) :
         LET a == reload_response(r)
         IN /\ Commit(r)
            /\ resp' = Response("reload", a.status, a.body, FALSE, r, <<>>, 0,
                                NoScore, NoDb, <<>>)
    /\ UNCHANGED <<config, REQUEST_COUNT, REQUEST_LATENCY, predictions, tasks>>

\* POST /reload sent by a client other than the promotion script.
reload_model == reload_request /\ UNCHANGED script

Threshold == 50

\* Variant: the threshold itself maps to 0.
Decision_Strict(proba) == IF proba > Threshold THEN 1 ELSE 0

Decision(proba) == IF proba >= Threshold THEN 1 ELSE 0

\* Variant: the row does not carry the binding's version.
Prediction_NoVersion(proba, info) ==
    [fraud_probability |-> proba, prediction |-> Decision(proba),
     model_version |-> NoneStr, model_name |-> info.name]

\* The row predict hands to the session.
Prediction(proba, info) ==
    [fraud_probability |-> proba, prediction |-> Decision(proba),
     model_version |-> info.version, model_name |-> info.name]

\* Variant: the 200 counter is incremented before scoring is attempted.
predict_outcome_CountFirst(r, score, db, dbEnabled) ==
    IF r.raised
    THEN [status |-> 500, body |-> InternalServerError, unhandled |-> TRUE,
          counted |-> <<>>, rows |-> <<>>]
    ELSE IF r.ret = NoModel
    THEN [status |-> 503, body |-> [error |-> "model not available"],
          unhandled |-> FALSE, counted |-> <<503>>, rows |-> <<>>]
    ELSE IF score.raises
    THEN [status |-> 400, body |-> [error |-> ScoringError], unhandled |-> FALSE,
          counted |-> <<200, 400>>, rows |-> <<>>]
    ELSE IF dbEnabled /\ db.fail \in {"construct", "add", "commit"} /\ db.rollback = "raise"
    THEN [status |-> 400, body |-> [error |-> RollbackError], unhandled |-> FALSE,
          counted |-> <<200, 400>>, rows |-> <<>>]
    ELSE [status |-> 200,
          body |-> [fraud_probability |-> score.proba,
                    prediction |-> Decision(score.proba),
                    model_version |-> r.info.version],
          unhandled |-> FALSE, counted |-> <<200>>,
          rows |-> IF dbEnabled /\ db.fail = "none"
                   THEN <<Prediction(score.proba, r.info)>> ELSE <<>>]

\* Lines 181-223: what predict answers, counts and writes, given the result
\* of its load_model call, the scoring outcome and the database outcome.
predict_outcome(r, score, db, dbEnabled) ==
    IF r.raised
    THEN [status |-> 500, body |-> InternalServerError, unhandled |-> TRUE,
          counted |-> <<>>, rows |-> <<>>]
    ELSE IF r.ret = NoModel
    THEN [status |-> 503, body |-> [error |-> "model not available"],
          unhandled |-> FALSE, counted |-> <<503>>, rows |-> <<>>]
    ELSE IF score.raises
    THEN [status |-> 400, body |-> [error |-> ScoringError], unhandled |-> FALSE,
          counted |-> <<400>>, rows |-> <<>>]
    ELSE IF dbEnabled /\ db.fail \in {"construct", "add", "commit"} /\ db.rollback = "raise"
    THEN [status |-> 400, body |-> [error |-> RollbackError], unhandled |-> FALSE,
          counted |-> <<400>>, rows |-> <<>>]
    ELSE [status |-> 200,
          body |-> [fraud_probability |-> score.proba,
                    prediction |-> Decision(score.proba),
                    model_version |-> r.info.version],
          unhandled |-> FALSE, counted |-> <<200>>,
          rows |-> IF dbEnabled /\ db.fail = "none"
                   THEN <<Prediction(score.proba, r.info)>> ELSE <<>>]

\* Scoring is called once a predictor was obtained; the session is written
\* to once scoring succeeded and the database is enabled.
Scores(r) == IF ~r.raised /\ r.ret # NoModel THEN ScoreOutcomes ELSE {NoScore}

Writes(score, dbEnabled) ==
    IF dbEnabled /\ score.called /\ ~score.raises THEN DbOutcomes ELSE {NoDb}

\* Counter after the increments of one request.
Inc(count, counted) ==
    [s \in Statuses |->
        count[s] + Cardinality({i \in 1..Len(counted) : counted[i] = s})]

\* POST /predict
predict ==
    /\ REQUEST_LATENCY < MaxPredicts
    /\ _model # NoModel \/ CanLoad
    /\ \E r \in load_model(_model, _model_info, nextId,
                            MODEL_ALIAS, MODEL_STAGE, MODEL_PATH) :
            \E score \in Scores(r) :
               \E db \in Writes(score, DB_ENABLED) :
                 LET o == predict_outcome(r, score, db, DB_ENABLED)
                 IN /\ Commit(r)
                    /\ REQUEST_COUNT' = Inc(REQUEST_COUNT, o.counted)
                    /\ REQUEST_LATENCY' = REQUEST_LATENCY + 1
                    /\ predictions' = predictions \o o.rows
                    /\ resp' = Response("predict", o.status, o.body, o.unhandled, r,
                                        o.counted, 1, score, db, o.rows)
    /\ UNCHANGED <<config, script, tasks>>

Next == health \/ metrics \/ model_info \/ reload_model \/ predict

Spec == Init /\ [][Next]_vars

\* ------------------------------------------------- the handlers, by statement
\* The same handlers with predict and reload_model taken one statement at a
\* time, under the scheduling the event loop gives coroutines.

\* Variant: a coroutine can be suspended between two statements.
MayStep_Preemptive(t) == TRUE

\* A coroutine is suspended only at an await; the handlers have none, so a
\* handler takes a step only while no other handler is part-way through.
MayStep(t) == \A u \in {"predict", "reload"} \ {t} : tasks[u].pc = "idle"

\* The load result predict holds, paired with the binding as it is now read.
Held == [tasks.predict.r EXCEPT !.info = _model_info]

\* Line 182: predict calls load_model; without a predictor the request ends.
predict_load ==
    /\ MayStep("predict")
    /\ tasks.predict.pc = "idle"
    /\ REQUEST_LATENCY < MaxPredicts
    /\ _model # NoModel \/ CanLoad
    /\ \E r \in load_model(_model, _model_info, nextId,
                            MODEL_ALIAS, MODEL_STAGE, MODEL_PATH) :
         /\ Commit(r)
         /\ IF r.raised \/ r.ret = NoModel
            THEN LET o == predict_outcome(r, NoScore, NoDb, DB_ENABLED)
                 IN /\ REQUEST_COUNT' = Inc(REQUEST_COUNT, o.counted)
                    /\ REQUEST_LATENCY' = REQUEST_LATENCY + 1
                    /\ resp' = Response("predict", o.status, o.body, o.unhandled, r,
                                        o.counted, 1, NoScore, NoDb, <<>>)
                    /\ UNCHANGED tasks
            ELSE /\ tasks' = [tasks EXCEPT !.predict =
                                 [pc |-> "loaded", r |-> r, seen |-> ModelView(r.info),
                                  score |-> NoScore, db |-> NoDb, rows |-> <<>>]]
                 /\ UNCHANGED <<REQUEST_COUNT, REQUEST_LATENCY, resp>>
    /\ UNCHANGED <<config, script, predictions>>

\* Lines 190-213: scoring and the database write, which reads the binding's
\* version and name; a scoring or rollback exception ends the request.
predict_score ==
    /\ MayStep("predict")
    /\ tasks.predict.pc = "loaded"
    /\ \E score \in ScoreOutcomes :
         \E db \in Writes(score, DB_ENABLED) :
           LET o == predict_outcome(Held, score, db, DB_ENABLED)
           IN /\ predictions' = predictions \o o.rows
              /\ IF o.status = 200
                 THEN /\ tasks' = [tasks EXCEPT !.predict.pc = "scored",
                                                !.predict.score = score,
                                                !.predict.db = db,
                                                !.predict.rows = o.rows]
                      /\ UNCHANGED <<REQUEST_COUNT, REQUEST_LATENCY, resp>>
                 ELSE /\ tasks' = [tasks EXCEPT !.predict = IdleTasks.predict]
                      /\ REQUEST_COUNT' = Inc(REQUEST_COUNT, o.counted)
                      /\ REQUEST_LATENCY' = REQUEST_LATENCY + 1
                      /\ resp' = Response("predict", o.status, o.body, o.unhandled,
                                          tasks.predict.r, o.counted, 1, score, db, <<>>)
    /\ UNCHANGED <<config, script, _model, _model_info, nextId, owner>>

\* Lines 215-220: the 200 answer, which reads the binding's version again.
predict_respond ==
    /\ MayStep("predict")
    /\ tasks.predict.pc = "scored"
    /\ LET o == predict_outcome(Held, tasks.predict.score, tasks.predict.db, DB_ENABLED)
       IN /\ REQUEST_COUNT' = Inc(REQUEST_COUNT, o.counted)
          /\ REQUEST_LATENCY' = REQUEST_LATENCY + 1
          /\ resp' = Response("predict", o.status, o.body, o.unhandled, tasks.predict.r,
                              o.counted, 1, tasks.predict.score, tasks.predict.db,
                              tasks.predict.rows)
    /\ tasks' = [tasks EXCEPT !.predict = IdleTasks.predict]
    /\ UNCHANGED <<config, script, _model, _model_info, predictions, nextId, owner>>

\* Line 140: reload clears the predictor.
reload_clear_model ==
    /\ MayStep("reload")
    /\ tasks.reload.pc = "idle"
    /\ CanLoad
    /\ _model' = reload_clear(_model, _model_info).model
    /\ tasks' = [tasks EXCEPT !.reload.pc = "model cleared"]
    /\ UNCHANGED <<config, script, _model_info, REQUEST_COUNT, REQUEST_LATENCY, predictions,
                   nextId, resp, owner>>

\* Lines 141-151: reload replaces the binding by an empty one.
reload_clear_info ==
    /\ MayStep("reload")
    /\ tasks.reload.pc = "model cleared"
    /\ _model_info' = reload_clear(_model, _model_info).info
    /\ owner' = NoModel
    /\ tasks' = [tasks EXCEPT !.reload.pc = "cleared"]
    /\ UNCHANGED <<config, script, _model, REQUEST_COUNT, REQUEST_LATENCY, predictions,
                   nextId, resp>>

\* Lines 153-176: reload resolves again and answers.
reload_load ==
    /\ MayStep("reload")
    /\ tasks.reload.pc = "cleared"
    /\ \E r \in load_model(_model, _model_info, nextId,
                            MODEL_ALIAS, MODEL_STAGE, MODEL_PATH) :
         LET a == reload_response(r)
         IN /\ Commit(r)
            /\ resp' = Response("reload", a.status, a.body, FALSE, r, <<>>, 0,
                                NoScore, NoDb, <<>>)
    /\ tasks' = [tasks EXCEPT !.reload.pc = "idle"]
    /\ UNCHANGED <<config, script, REQUEST_COUNT, REQUEST_LATENCY, predictions>>

\* The handlers that are one statement long for the cache.
model_info_step == MayStep("model_info") /\ model_info

health_step == MayStep("health") /\ health

metrics_step == MayStep("metrics") /\ metrics

NextSteps ==
    \/ predict_load \/ predict_score \/ predict_respond
    \/ reload_clear_model \/ reload_clear_info \/ reload_load
    \/ model_info_step \/ health_step \/ metrics_step

SpecSteps == Init /\ [][NextSteps]_vars

\* ------------------------------------------------------ the promotion script
\* promote_model (scripts/promote_model.py), statement by statement, run
\* against the registry and the prediction API.

\* The versions a caller can ask for: the registered ones and one that the
\* registry does not hold.
Requested == Versions \cup {"9"}

\* promote_model has returned ret.
Return(frame, ret) == [frame EXCEPT !.pc = "done", !.ret = ret]

\* Variant: the status of the reload response is not looked at.
reload_result_IgnoreStatus(status) == "True"

\* Lines 68-78 and 89: what promote_model returns for the status of the
\* response to POST /reload.
reload_result(status) == IF status = 200 THEN "True" ELSE "False"

\* Lines 20-41: a call of promote_model.
promote_model ==
    /\ promotion.pc \in {"idle", "done"}
    /\ promotion.run < MaxPromotions
    /\ \E v \in Requested, b \in BOOLEAN :
         promotion' = [IdlePromotion EXCEPT !.pc = "verify", !.run = promotion.run + 1,
                                            !.version = v, !.reload_app = b]
    /\ UNCHANGED <<config, app, registry>>

\* Line 45: client.get_model_version; it raises for a version the registry
\* does not hold, and can raise for one it holds.
promote_verify ==
    /\ promotion.pc = "verify"
    /\ \E out \in IF promotion.version \in Versions THEN {"ok", "raise"} ELSE {"raise"} :
         promotion' = IF out = "ok"
                      THEN [promotion EXCEPT !.pc = "set_alias", !.verified = TRUE]
                      ELSE Return([promotion EXCEPT !.raised = "verify"], "False")
    /\ UNCHANGED <<config, app, registry>>

\* Line 53: client.set_registered_model_alias; when it raises, the registry
\* may or may not have applied the update.
promote_set_alias ==
    /\ promotion.pc = "set_alias"
    /\ \E out \in {"ok", "raise", "raise after update"} :
         /\ registry' = IF out = "raise" THEN registry ELSE promotion.version
         /\ promotion' = IF out = "ok"
                         THEN [promotion EXCEPT !.pc = "verify_updated", !.set = TRUE]
                         ELSE Return([promotion EXCEPT !.raised = "set_alias"], "False")
    /\ UNCHANGED <<config, app>>

\* Lines 57-61 and 84-89: the second get_model_version, then the branch on
\* reload_app.
promote_verify_updated ==
    /\ promotion.pc = "verify_updated"
    /\ \E out \in {"ok", "raise"} :
         promotion' = IF out = "raise"
                      THEN Return([promotion EXCEPT !.raised = "verify_updated"], "False")
                      ELSE IF promotion.reload_app
                      THEN [promotion EXCEPT !.pc = "reload"]
                      ELSE Return(promotion, "True")
    /\ UNCHANGED <<config, app, registry>>

\* Lines 62-83: requests.post(app_url/reload, timeout=10). The request fails
\* before it reaches the app, or the app handles it and the reply arrives, or
\* the app handles it and the reply is lost or late.
promote_reload ==
    /\ promotion.pc = "reload"
    /\ \/ /\ promotion' = Return([promotion EXCEPT !.posted = TRUE, !.raised = "reload"],
                                 "False")
          /\ UNCHANGED <<config, app>>
       \/ /\ reload_request
          /\ \E reply \in {"received", "lost"} :
               promotion' =
                   IF reply = "received"
                   THEN Return([promotion EXCEPT !.posted = TRUE, !.status = resp'.status],
                               reload_result(resp'.status))
                   ELSE Return([promotion EXCEPT !.posted = TRUE, !.raised = "reload"],
                               "False")
    /\ UNCHANGED registry

NextPromote ==
    \/ promote_model \/ promote_verify \/ promote_set_alias
    \/ promote_verify_updated \/ promote_reload

SpecPromote == Init /\ [][NextPromote]_vars

\* ------------------------------------------------------------------- claims
\* Helpers over the trace of the last request.
Sources(attempts) == [i \in 1..Len(attempts) |-> attempts[i].src]

IsPrefix(p, q) == Len(p) <= Len(q) /\ \A i \in 1..Len(p) : p[i] = q[i]

AllConfigured == MODEL_ALIAS # "" /\ MODEL_STAGE # "" /\ MODEL_PATH # ""

Priority == <<"alias", "stage", "local">>

IsSet(src) ==
    CASE src = "alias" -> MODEL_ALIAS # ""
      [] src = "stage" -> MODEL_STAGE # ""
      [] OTHER -> MODEL_PATH # ""

\* The non-empty sources, in priority order.
Configured == SelectSeq(Priority, IsSet)

\* The error a source gave in the trace of the last request, None if it gave none.
TraceError(src) ==
    IF \E i \in 1..Len(resp.attempts) : resp.attempts[i].src = src /\ ~resp.attempts[i].ok
    THEN (CHOOSE a \in {resp.attempts[i] : i \in 1..Len(resp.attempts)} :
              a.src = src /\ ~a.ok).msg
    ELSE NoneStr

\* C1: with alias, stage and local path configured, a resolution that starts
\* from an empty cache consults alias first; when the alias lookup raises it
\* consults stage next; when both raise it consults the local path; the
\* sources consulted are always a prefix of alias, stage, local.
C1_FallbackOrder ==
    (resp.passes = 1 /\ AllConfigured) =>
        /\ IsPrefix(Sources(resp.attempts), Priority)
        /\ Len(resp.attempts) >= 1
        /\ ~resp.attempts[1].ok => Len(resp.attempts) >= 2
        /\ (Len(resp.attempts) >= 2 /\ ~resp.attempts[2].ok) => Len(resp.attempts) = 3

C1_Witness ==
    /\ resp.passes = 1 /\ AllConfigured
    /\ Sources(resp.attempts) = Priority
    /\ ~resp.attempts[1].ok /\ ~resp.attempts[2].ok /\ resp.attempts[3].ok

\* C2: for every combination of alias / stage / local path being empty or
\* not, a resolution consults only the non-empty sources, in priority order,
\* and ends without a predictor only after every non-empty source was
\* consulted and failed.
C2_HonorsNonEmptySources ==
    resp.passes = 1 =>
        /\ IsPrefix(Sources(resp.attempts), Configured)
        /\ resp.ret = NoModel =>
              /\ Sources(resp.attempts) = Configured
              /\ \A i \in 1..Len(resp.attempts) : ~resp.attempts[i].ok

\* C3: in every state between requests the binding's source is one of alias,
\* stage, local, None, and a predictor is cached exactly when it is not None.
C3_NoPartialBinding ==
    /\ _model_info.source \in {"alias", "stage", "local", NoneStr}
    /\ _model # NoModel <=> _model_info.source # NoneStr

C3_Witness ==
    /\ resp.op = "reload" /\ resp.raised
    /\ nextId > 1 /\ _model = NoModel /\ _model_info.source = NoneStr

\* C4: a load_model call that returns a predictor leaves it cached; no
\* request other than reload changes a cached predictor; a load_model call
\* made while a predictor is cached returns that predictor and consults no
\* source.
C4_IdempotentCache ==
    [][/\ (resp'.calls = 1 /\ resp'.ret # NoModel) => _model' = resp'.ret
       /\ (resp'.op # "reload" /\ _model # NoModel) => _model' = _model
       /\ (resp'.op # "reload" /\ resp'.calls = 1 /\ _model # NoModel) =>
              /\ resp'.ret = _model
              /\ resp'.attempts = <<>>
              /\ resp'.passes = 0]_vars

C4_Witness ==
    /\ resp.op = "predict" /\ resp.calls = 1
    /\ resp.passes = 0 /\ resp.ret # NoModel /\ resp.ret = _model

\* C5: every POST /reload runs exactly one pass of the fallback chain from a
\* cleared cache: a predictor cached before is not the one cached after, and
\* the binding holds no error but those of this pass.
C5_ReloadEager ==
    [][resp'.op = "reload" =>
          /\ resp'.calls = 1 /\ resp'.passes = 1
          /\ _model # NoModel => _model' # _model
          /\ \A src \in {"alias", "stage"} :
               _model_info'.errors[src] # NoneStr =>
                   \E i \in 1..Len(resp'.attempts) :
                       /\ resp'.attempts[i].src = src
                       /\ ~resp'.attempts[i].ok
                       /\ resp'.attempts[i].msg = _model_info'.errors[src]]_vars

C5_Witness ==
    /\ resp.op = "reload" /\ resp.passes = 1
    /\ _model = 2 /\ resp.ret = 2

\* C6: when the resolution run by POST /reload gives no predictor, the answer
\* is 500 or 503 with status "error" and the errors of that resolution, and
\* the cache is empty afterwards.
C6_FailedReload ==
    (resp.op = "reload" /\ resp.ret = NoModel) =>
        /\ resp.status \in {500, 503}
        /\ ~resp.unhandled
        /\ resp.body.status = "error"
        /\ resp.body.model_info.errors =
               [alias |-> TraceError("alias"), stage |-> TraceError("stage")]
        /\ _model = NoModel
        /\ _model_info.source = NoneStr

C6_Witness ==
    /\ resp.op = "reload" /\ resp.ret = NoModel /\ nextId > 1
    /\ resp.status = 503
    /\ resp.body.model_info.errors.alias # NoneStr
    /\ resp.body.model_info.errors.stage # NoneStr

\* C7: a predict request whose scoring succeeded answers 200 with
\* fraud_probability, prediction and model_version, whatever the database
\* write and the rollback do.
C7_LoggingNeverAffectsResponse ==
    (resp.op = "predict" /\ resp.score.called /\ ~resp.score.raises) =>
        /\ resp.status = 200
        /\ ~resp.unhandled
        /\ resp.body = [fraud_probability |-> resp.score.proba,
                        prediction |-> Decision(resp.score.proba),
                        model_version |-> _model_info.version]

\* C8: every predict request increments the request counter exactly once,
\* labelled with the status it answers, and records one latency observation.
C8_MetricsExactlyOnce ==
    resp.op = "predict" => (resp.counted = <<resp.status>> /\ resp.observed = 1)

\* C9: a reload whose alias lookup fails and whose stage lookup succeeds with
\* version v answers success with source stage and version v and caches that
\* binding; while a stage binding is cached, no request other than reload
\* changes its version, and every predict answering 200 reports it.
C9_VersionStable ==
    [][/\ (/\ resp'.op = "reload"
           /\ Len(resp'.attempts) = 2
           /\ resp'.attempts[1].src = "alias" /\ ~resp'.attempts[1].ok
           /\ resp'.attempts[2].src = "stage" /\ resp'.attempts[2].ok
           /\ resp'.attempts[2].lookup = "ok") =>
              /\ resp'.status = 200
              /\ resp'.body.status = "success"
              /\ resp'.body.model.source = "stage"
              /\ resp'.body.model.version = resp'.attempts[2].ver
              /\ _model' # NoModel
              /\ _model_info'.source = "stage"
              /\ _model_info'.version = resp'.attempts[2].ver
       /\ (resp'.op # "reload" /\ _model # NoModel /\ _model_info.source = "stage") =>
              /\ _model' = _model
              /\ _model_info'.source = "stage"
              /\ _model_info'.version = _model_info.version
              /\ (resp'.op = "predict" /\ resp'.status = 200) =>
                     resp'.body.model_version = _model_info.version]_vars

C9_Witness ==
    /\ resp.op = "predict" /\ resp.status = 200 /\ resp.passes = 0
    /\ _model_info.source = "stage" /\ _model_info.version = "7"
    /\ _model_info.errors.alias # NoneStr
    /\ resp.body.model_version = "7"

\* C10: a predict request whose resolution finds the alias lookup, the stage
\* lookup and the local artifact all failing answers 503 with
\* {error: "model not available"}, raises nothing, and runs the chain once.
C10_AllSourcesFailing ==
    (/\ resp.op = "predict"
     /\ Len(resp.attempts) = 3
     /\ \A i \in 1..3 : ~resp.attempts[i].ok) =>
        /\ resp.status = 503
        /\ resp.body = [error |-> "model not available"]
        /\ ~resp.unhandled
        /\ resp.passes = 1

\* The last entry of the trace of the last request.
LastAttempt == resp.attempts[Len(resp.attempts)]

\* C11: a predict request whose scoring raises answers 400 with a non-empty
\* error, increments the counter of status 400 and no other, writes no row,
\* and leaves a predictor cached before the request, and its binding, as
\* they were.
C11_BadInput ==
    [][(resp'.op = "predict" /\ resp'.score.called /\ resp'.score.raises) =>
          /\ resp'.status = 400
          /\ ~resp'.unhandled
          /\ resp'.body.error # ""
          /\ resp'.counted = <<400>>
          /\ REQUEST_COUNT' = [REQUEST_COUNT EXCEPT ![400] = @ + 1]
          /\ resp'.logged = <<>>
          /\ predictions' = predictions
          /\ _model' = resp'.ret
          /\ _model # NoModel => (_model' = _model /\ _model_info' = _model_info)]_vars

C11_Witness ==
    /\ resp.op = "predict" /\ resp.score.called /\ resp.score.raises
    /\ resp.passes = 0 /\ resp.ret = _model
    /\ resp.status = 400 /\ REQUEST_COUNT[400] = 1

\* C12: in every 200 answer of predict and in every row written, prediction
\* is 0 or 1, and it is 1 exactly when fraud_probability is at least 0.5.
C12_ThresholdConsistent ==
    /\ (resp.op = "predict" /\ resp.status = 200) =>
           /\ resp.body.prediction \in {0, 1}
           /\ resp.body.prediction = 1 <=> resp.body.fraud_probability >= 50
    /\ \A i \in 1..Len(predictions) :
           /\ predictions[i].prediction \in {0, 1}
           /\ predictions[i].prediction = 1 <=> predictions[i].fraud_probability >= 50

C12_Witness ==
    /\ resp.op = "predict" /\ resp.status = 200
    /\ resp.body.fraud_probability = 50 /\ resp.body.prediction = 1
    /\ Len(predictions) = 1 /\ predictions[1].prediction = 1

\* C14: every predict request ends with 200 (predictor available, scoring
\* succeeded), 400 (predictor available, scoring raised) or 503 (no
\* predictor), and with no unhandled error.
C14_PredictOutcomes ==
    resp.op = "predict" =>
        /\ ~resp.unhandled
        /\ \/ resp.status = 200 /\ resp.ret # NoModel
                /\ resp.score.called /\ ~resp.score.raises
           \/ resp.status = 400 /\ resp.ret # NoModel
                /\ resp.score.called /\ resp.score.raises
           \/ resp.status = 503 /\ resp.ret = NoModel

\* C15: every model_info request answers 200 with the model object and the
\* errors object of the binding, consulting the sources only when the cache
\* was empty.
C15_ModelInfoSucceeds ==
    resp.op = "model_info" =>
        /\ resp.status = 200
        /\ ~resp.unhandled
        /\ resp.body.model = ModelView(_model_info)
        /\ resp.body.errors = _model_info.errors
        /\ resp.passes = resp.calls

\* C16: POST /reload answers 200 with status "success" and a message exactly
\* when its resolution produced a predictor, and then the model it returns is
\* the binding cached when the request ends; it answers 503 when the
\* resolution returned None and 500 when it raised, both with status "error".
C16_ReloadOutcome ==
    resp.op = "reload" =>
        /\ resp.status \in {200, 500, 503}
        /\ resp.status = 200 <=> resp.ret # NoModel
        /\ resp.status = 200 =>
              /\ resp.body.status = "success"
              /\ resp.body.message # ""
              /\ resp.body.model = ModelView(_model_info)
              /\ _model = resp.ret
        /\ resp.status = 503 <=> (resp.ret = NoModel /\ ~resp.raised)
        /\ resp.status = 500 <=> resp.raised
        /\ resp.status # 200 => resp.body.status = "error"

C16_Witness ==
    /\ resp.op = "reload" /\ resp.status = 200
    /\ resp.body.model.source = "alias" /\ resp.body.model.version = "8"
    /\ _model = 2

\* C17: after a resolution that ends with a predictor, the error of every
\* source that failed on the way is still in the binding, and model_info
\* reports the binding's errors.
C17_ErrorsRetained ==
    /\ (resp.passes = 1 /\ resp.ret # NoModel) =>
           \A i \in 1..Len(resp.attempts) :
               ~resp.attempts[i].ok =>
                   _model_info.errors[resp.attempts[i].src] = resp.attempts[i].msg
    /\ (resp.op = "model_info" /\ resp.status = 200) =>
           resp.body.errors = _model_info.errors

C17_Witness ==
    /\ resp.op = "model_info" /\ resp.passes = 1 /\ resp.ret # NoModel
    /\ _model_info.source = "local"
    /\ resp.body.errors.alias \in AliasErrors
    /\ resp.body.errors.stage \in StageErrors

\* C18: in a resolution only the last source consulted can have succeeded,
\* and when it did the binding's source is that source.
C18_StopsAtFirstSuccess ==
    resp.passes = 1 =>
        /\ \A i \in 1..Len(resp.attempts) : resp.attempts[i].ok => i = Len(resp.attempts)
        /\ (Len(resp.attempts) > 0 /\ LastAttempt.ok) =>
              /\ resp.ret # NoModel
              /\ _model = resp.ret
              /\ _model_info.source = LastAttempt.src

C18_Witness ==
    /\ resp.passes = 1 /\ AllConfigured
    /\ Len(resp.attempts) = 1 /\ resp.attempts[1].ok
    /\ _model_info.source = "alias"

\* C19: a resolution whose alias or stage load succeeds while the version
\* lookup raises or finds no version ends with that predictor cached, source,
\* name and pointer set, version None, the error entry of that source as it
\* was when the resolution started, and no further source consulted.
C19_VersionLookupNonFatal ==
    [][(/\ resp'.passes = 1
        /\ Len(resp'.attempts) > 0
        /\ resp'.attempts[Len(resp'.attempts)].ok
        /\ resp'.attempts[Len(resp'.attempts)].lookup \in {"raise", "empty"}) =>
          LET a == resp'.attempts[Len(resp'.attempts)]
          IN /\ ~resp'.raised
             /\ resp'.ret # NoModel /\ _model' = resp'.ret
             /\ a.src \in {"alias", "stage"}
             /\ _model_info'.source = a.src
             /\ _model_info'.name = MODEL_NAME
             /\ _model_info'[a.src] = IF a.src = "alias" THEN MODEL_ALIAS ELSE MODEL_STAGE
             /\ _model_info'.version = NoneStr
             /\ _model_info'.errors[a.src] =
                    IF resp'.op = "reload" THEN NoneStr ELSE _model_info.errors[a.src]]_vars

C19_Witness ==
    /\ resp.passes = 1 /\ Len(resp.attempts) = 1
    /\ resp.attempts[1].src = "alias" /\ resp.attempts[1].ok
    /\ resp.attempts[1].lookup = "raise"
    /\ MODEL_STAGE # "" /\ MODEL_PATH # ""
    /\ _model # NoModel /\ _model_info.version = NoneStr
    /\ _model_info.errors.alias = NoneStr

\* C20: while a predictor is cached, a local binding has name, alias, stage
\* and version None; an alias binding has name and alias set and stage None;
\* a stage binding has name and stage set and alias None.
C20_FieldsMatchSource ==
    _model # NoModel =>
        /\ _model_info.source = "local" =>
              /\ _model_info.name = NoneStr /\ _model_info.alias = NoneStr
              /\ _model_info.stage = NoneStr /\ _model_info.version = NoneStr
        /\ _model_info.source = "alias" =>
              /\ _model_info.name = MODEL_NAME /\ _model_info.alias = MODEL_ALIAS
              /\ _model_info.stage = NoneStr
        /\ _model_info.source = "stage" =>
              /\ _model_info.name = MODEL_NAME /\ _model_info.stage = MODEL_STAGE
              /\ _model_info.alias = NoneStr

C20_Witness ==
    /\ _model = 2 /\ resp.op = "reload"
    /\ Len(resp.attempts) > 0 /\ LastAttempt.lookup = "raise"
    /\ _model_info.source = "stage"
    /\ _model_info.alias = NoneStr /\ _model_info.version = NoneStr

\* What a predict that is part-way through holds: the cached predictor, and
\* the binding written for it, unchanged since its load_model call returned.
InFlightView ==
    tasks.predict.pc # "idle" =>
        /\ _model = tasks.predict.r.ret
        /\ owner = _model
        /\ ModelView(_model_info) = tasks.predict.seen

\* What a request that can start finds: the binding written for the cached
\* predictor, and an empty binding beside an empty cache.
StartView ==
    (MayStep("predict") /\ MayStep("model_info")) =>
        /\ owner = _model
        /\ _model = NoModel => _model_info.source = NoneStr

\* The 200 answer of predict and the rows it logged carry the version of the
\* binding its load_model call returned with.
AnswersHeldVersion ==
    (tasks.predict.pc = "scored" /\ tasks'.predict.pc = "idle") =>
        /\ resp'.op = "predict" /\ resp'.status = 200
        /\ resp'.body.model_version = tasks.predict.seen.version
        /\ \A i \in 1..Len(resp'.logged) :
               /\ resp'.logged[i].model_version = tasks.predict.seen.version
               /\ resp'.logged[i].model_name = tasks.predict.seen.name

C22_OnlyReloadResets ==
    [][/\ (resp'.op # "reload" /\ _model # NoModel) =>
              /\ _model' = _model
              /\ _model_info' = _model_info
       /\ (_model_info # EmptyInfo /\ _model_info' = EmptyInfo) => resp'.op = "reload"
       /\ resp'.op = "health" =>
              /\ resp'.status = 200 /\ resp'.body = [status |-> "ok"]
              /\ resp'.calls = 0 /\ resp'.attempts = <<>>
              /\ _model' = _model /\ _model_info' = _model_info
              /\ nextId' = nextId]_vars

C22_Witness ==
    /\ resp.op = "predict" /\ resp.passes = 0 /\ resp.status = 200
    /\ _model = 1 /\ _model_info.source = "local"
    /\ _model_info.errors.alias \in AliasErrors
    /\ _model_info.errors.stage \in StageErrors

\* C23: a predict or model_info request made while the cache is empty runs a
\* resolution; that resolution ends without a predictor only when every
\* configured source was consulted and failed in it; and a predict request
\* whose resolution gave a predictor answers 200 or 400.
C23_FailureNotMemoized ==
    [][(resp'.op \in {"predict", "model_info"} /\ _model = NoModel) =>
          /\ resp'.calls = 1 /\ resp'.passes = 1
          /\ resp'.ret = NoModel =>
                /\ Sources(resp'.attempts) = Configured
                /\ \A i \in 1..Len(resp'.attempts) : ~resp'.attempts[i].ok
          /\ (resp'.op = "predict" /\ resp'.ret # NoModel) =>
                resp'.status \in {200, 400}]_vars

\* C24: outside POST /reload, the error entry of a source changes only to the
\* message of a failure of that source in the request's own resolution; a
\* resolution in which the source succeeds, or is not consulted, leaves it.
C24_ErrorsClearedOnlyByReload ==
    [][resp'.op # "reload" =>
          \A src \in {"alias", "stage"} :
              LET fails == {i \in 1..Len(resp'.attempts) :
                                resp'.attempts[i].src = src /\ ~resp'.attempts[i].ok}
              IN IF fails # {}
                 THEN \E i \in fails : _model_info'.errors[src] = resp'.attempts[i].msg
                 ELSE _model_info'.errors[src] = _model_info.errors[src]]_vars

C24_Witness ==
    /\ resp.op = "model_info" /\ resp.status = 200 /\ resp.passes = 1
    /\ Len(resp.attempts) = 1 /\ resp.attempts[1].src = "alias" /\ resp.attempts[1].ok
    /\ resp.body.model.source = "alias"
    /\ resp.body.errors.alias \in AliasErrors

\* C25: a POST /reload whose alias and stage lookups raise and whose local
\* artifact exists but cannot be loaded answers 500 with status "error" and
\* the message of the load exception; the cache is empty afterwards and the
\* binding's errors are the two lookup errors.
C25_LocalLoadErrorOnReload ==
    (/\ resp.op = "reload"
     /\ Len(resp.attempts) = 3
     /\ resp.attempts[3].lookup = "corrupt") =>
        /\ ~resp.attempts[1].ok /\ ~resp.attempts[2].ok
        /\ resp.raised
        /\ resp.status = 500 /\ ~resp.unhandled
        /\ resp.body.status = "error"
        /\ resp.body.message = LocalLoadError
        /\ _model = NoModel
        /\ _model_info.source = NoneStr
        /\ _model_info.errors = [alias |-> resp.attempts[1].msg,
                                 stage |-> resp.attempts[2].msg]
        /\ resp.body.model_info = _model_info

C25_Witness ==
    /\ resp.op = "reload" /\ Len(resp.attempts) = 3
    /\ resp.attempts[3].lookup = "corrupt"
    /\ resp.status = 500 /\ nextId = 2
    /\ _model_info.errors.alias = "alias error B"
    /\ _model_info.errors.stage = "stage error A"

\* What has happened by the time promote_model is at each point: the alias
\* update is reached only with the version verified, the reload only with
\* reload_app set and the alias set to the requested version; a call in which
\* the verification or the alias update raised has requested no reload and
\* returned False; a call whose reload request failed or was answered with a
\* status other than 200 returned False with the alias on the new version.
PromotionOrder ==
    /\ promotion.pc \in {"set_alias", "verify_updated", "reload"} =>
           (promotion.verified /\ promotion.version \in Versions)
    /\ promotion.set => (promotion.verified /\ registry = promotion.version)
    /\ promotion.pc = "reload" => (promotion.reload_app /\ promotion.set)
    /\ promotion.posted => (promotion.reload_app /\ promotion.set)
    /\ promotion.raised \in {"verify", "set_alias"} =>
           /\ ~promotion.posted
           /\ promotion.pc = "done" /\ promotion.ret = "False"
    /\ (promotion.posted /\ promotion.status # 200) =>
           /\ promotion.pc = "done" /\ promotion.ret = "False"
           /\ registry = promotion.version
    /\ promotion.ret = "True" =>
           /\ promotion.set
           /\ promotion.reload_app => (promotion.posted /\ promotion.status = 200)

\* The registry alias is written only by the alias update, to the verified
\* version; POST /reload is handled by the app only on behalf of the reload
\* step, which leaves the alias where it is.
PromotionStep ==
    /\ registry' # registry =>
           /\ promotion.pc = "set_alias" /\ promotion.verified
           /\ registry' = promotion.version
    /\ (promotion'.posted /\ ~promotion.posted) =>
           /\ promotion.pc = "reload" /\ promotion.reload_app
           /\ registry = promotion.version /\ registry' = registry
    /\ resp' # resp =>
           /\ resp'.op = "reload"
           /\ promotion.pc = "reload" /\ promotion'.posted

\* C26: promote_model sets the alias only after the requested version was
\* verified, requests POST /reload only if reload_app is set and only after
\* the alias was set; when the verification or the alias update raises it
\* requests no reload and returns False; when the reload request fails or is
\* answered with a status other than 200 it returns False and the alias stays
\* on the new version.
C26_PromotionOrdering ==
    /\ []PromotionOrder
    /\ [][PromotionStep]_vars

C26_Witness ==
    /\ promotion.pc = "done" /\ promotion.run = 2
    /\ promotion.posted /\ promotion.status = 503 /\ promotion.ret = "False"
    /\ promotion.version = "8" /\ registry = "8"
    /\ resp.op = "reload" /\ resp.status = 503

====
